---- MODULE Spec2Model ----
(***************************************************************************)
(* Smartlead Tag Mapper (src/app.py): a Streamlit script that is re-run    *)
(* from top to bottom on every interaction.  The model keeps the session   *)
(* (uploaded frame, st.session_state["mapped_df"], the two checkboxes, the *)
(* two secrets), the locals of the run in progress, and the HTTP requests  *)
(* the run has sent.                                                       *)
(*                                                                         *)
(* Strings whose content the code inspects (emails, tag names) are         *)
(* sequences of one-character strings, so that strip() and lower() are     *)
(* computed and not assumed.  Identifiers are naturals below 2^53, where   *)
(* the float64 round trip pandas applies to a column holding NaN is exact. *)
(***************************************************************************)
EXTENDS Integers, Sequences, FiniteSets, TLC

\* ------------------------------------------------------------------ bounds
\* Largest number of rows of an uploaded CSV.
MaxRows == 52
\* Number of distinct mailboxes the rows of an upload cycle through.
MaxUsers == 7

\* ------------------------------------------------------- program constants
EMAIL_BATCH_LIMIT == 25

\* Python None as the "id" of a lookup record.
NoneId == -1
\* The "n/a" cell that fillna("n/a") writes for an unresolved identifier.
NA == -2
\* Python None where a string is expected.
NoneStr == <<"<None>">>

\* ----------------------------------------------------------------- strings
Whitespace == {" "}

\* str.lower() on one character.
LowerChar(c) ==
    CASE c = "A" -> "a"
      [] c = "X" -> "x"
      [] c = "V" -> "v"
      [] c = "I" -> "i"
      [] c = "P" -> "p"
      [] c = "W" -> "w"
      [] OTHER -> c

Lower(s) == [k \in 1..Len(s) |-> LowerChar(s[k])]

RECURSIVE LStrip(_)
LStrip(s) == IF s # <<>> /\ Head(s) \in Whitespace THEN LStrip(Tail(s)) ELSE s

RECURSIVE RStrip(_)
RStrip(s) ==
    IF s # <<>> /\ s[Len(s)] \in Whitespace
    THEN RStrip(SubSeq(s, 1, Len(s) - 1))
    ELSE s

Strip(s) == RStrip(LStrip(s))

\* (s or "")
OrEmpty(s) == IF s = NoneStr \/ s = <<>> THEN <<>> ELSE s

normalize_email(s) == Lower(Strip(OrEmpty(s)))

normalize_tag(s) == Lower(Strip(OrEmpty(s)))

\* ------------------------------------------------------------ input data
\* The spec's example: accounts [{id 1, a@x.com}], tags [{id 9, VIP}],
\* CSV row ("A@X.com", "vip").
ExEmailLower == <<"a", "@", "x", ".", "c", "o", "m">>
ExEmailUpper == <<"A", "@", "X", ".", "c", "o", "m">>
TagVipUpper == <<"V", "I", "P">>
TagVipLower == <<"v", "i", "p">>
TagVipPadded == <<" ", "v", "i", "P", " ">>
TagW == <<" ", "W">>
TagUnknown == <<"q">>

\* The address of user k as one of three spellings of the same key.
UserEmail(k, style) ==
    CASE style = 0 -> <<"a", ToString(k)>>
      [] style = 1 -> <<"A", ToString(k)>>
      [] OTHER -> <<" ", "a", ToString(k), " ">>

UnknownEmail(k) == <<"z", ToString(k)>>

\* The mailbox row k of an upload is about (addresses repeat in a CSV).
UserOf(k) == ((k - 1) % MaxUsers) + 1

\* Raw CSV cells (email column, tag column) of row k of an upload.
CsvRow(shape, k) ==
    CASE shape = "one" ->
            [email |-> UserEmail(UserOf(k), k % 3),
             tag |-> IF k % 3 = 0 THEN TagVipUpper
                     ELSE IF k % 3 = 1 THEN TagVipLower ELSE TagVipPadded]
      [] shape = "two" ->
            [email |-> UserEmail(UserOf(k), (k + 1) % 3),
             tag |-> IF k % 3 = 1 THEN TagW ELSE TagVipUpper]
      [] OTHER ->
            [email |-> IF k % 9 \in {2, 6} THEN UnknownEmail(UserOf(k))
                       ELSE UserEmail(UserOf(k), k % 3),
             tag |-> IF k % 9 \in {4, 6} THEN TagUnknown ELSE TagVipLower]

CsvOf(shape, n) == [k \in 1..n |-> CsvRow(shape, k)]

CsvFiles ==
    {<<[email |-> ExEmailUpper, tag |-> TagVipLower]>>,
     <<>>,
     CsvOf("one", EMAIL_BATCH_LIMIT),
     CsvOf("one", 30)}
    \cup {CsvOf(shape, MaxRows) : shape \in {"one", "two", "mix"}}

\* Lookup tables the remote service may answer with.
AccountsOfUsers(m) ==
    [k \in 1..m |-> [id |-> 100 + k, from_email |-> UserEmail(k, (k + 2) % 3)]]

\* Null ids, blank and null addresses, and addresses met twice.
QuirkAccounts ==
    <<[id |-> NoneId, from_email |-> UserEmail(1, 0)],
      [id |-> 7, from_email |-> <<" ", " ">>],
      [id |-> 8, from_email |-> NoneStr],
      [id |-> 201, from_email |-> UserEmail(1, 2)],
      [id |-> 101, from_email |-> UserEmail(1, 1)],
      [id |-> 102, from_email |-> UserEmail(2, 0)],
      [id |-> 103, from_email |-> UserEmail(3, 0)],
      [id |-> 502, from_email |-> UserEmail(2, 1)],
      [id |-> 0, from_email |-> UserEmail(3, 1)],
      [id |-> NoneId, from_email |-> UserEmail(3, 0)]>>

AccountTables ==
    {<<[id |-> 1, from_email |-> ExEmailLower]>>,
     AccountsOfUsers(MaxUsers),
     QuirkAccounts}

TagTables ==
    {<<>>,
     <<[id |-> 9, name |-> TagVipUpper]>>,
     <<[id |-> 9, name |-> TagVipUpper], [id |-> 5, name |-> TagW]>>,
     <<[id |-> NoneId, name |-> TagVipLower],
       [id |-> 3, name |-> <<>>],
       [id |-> 4, name |-> TagVipLower],
       [id |-> 9, name |-> TagVipPadded],
       [id |-> 6, name |-> NoneStr],
       [id |-> 12, name |-> TagW],
       [id |-> NoneId, name |-> TagW]>>}

\* The REST endpoint names the address "from_email" or "email".
RestTables ==
    {<<[id |-> 1, from_email |-> NoneStr, email |-> ExEmailLower],
       [id |-> 31, from_email |-> <<>>, email |-> UserEmail(1, 1)],
       [id |-> 32, from_email |-> UserEmail(2, 2), email |-> UserEmail(3, 0)]>>}

\* An HTTP exchange: the request raised (timeout, connection error), or a
\* response with a status code, a body that may hold "errors", and rows.
Raised == [raised |-> TRUE, status_code |-> 0, has_errors |-> FALSE, rows |-> <<>>]
Answer(code, errs, rows) ==
    [raised |-> FALSE, status_code |-> code, has_errors |-> errs, rows |-> rows]

GqlAccountsResponses ==
    {Answer(200, TRUE, <<>>)}
    \cup {Answer(200, FALSE, t) : t \in AccountTables}

RestAccountsResponses ==
    {Answer(401, FALSE, <<>>)} \cup {Answer(200, FALSE, t) : t \in RestTables}

GqlTagsResponses ==
    {Raised}
    \cup {Answer(200, FALSE, t) : t \in TagTables}

\* Responses of the tag-mapping endpoint to one apply call.
ApplyResponses ==
    {[status_code |-> 200, message |-> ""],
     [status_code |-> 300, message |-> "moved"],
     [status_code |-> 500, message |-> "boom"]}

\* ------------------------------------------------------- lookup functions
\* Each returns its rows, or raises (ok = FALSE; the exception text is not
\* kept).
Ok(rows) == [ok |-> TRUE, rows |-> rows]
Raise == [ok |-> FALSE, rows |-> <<>>]

fetch_email_accounts_graphql(resp) ==
    IF resp.raised THEN Raise
    ELSE IF resp.status_code # 200 THEN Raise
    ELSE IF resp.has_errors THEN Raise
    ELSE Ok([k \in 1..Len(resp.rows) |->
                [id |-> resp.rows[k].id, from_email |-> resp.rows[k].from_email]])

fetch_email_accounts_rest(resp) ==
    IF resp.raised THEN Raise
    ELSE IF resp.status_code # 200 THEN Raise
    ELSE Ok([k \in 1..Len(resp.rows) |->
                [id |-> resp.rows[k].id,
                 from_email |-> IF resp.rows[k].from_email \notin {NoneStr, <<>>}
                                THEN resp.rows[k].from_email
                                ELSE resp.rows[k].email]])

fetch_tags_graphql(resp) ==
    IF resp.raised THEN Raise
    ELSE IF resp.status_code # 200 THEN Raise
    ELSE IF resp.has_errors THEN Raise
    ELSE Ok([k \in 1..Len(resp.rows) |->
                [id |-> resp.rows[k].id, name |-> resp.rows[k].name]])

\* ------------------------------------------------------------ dictionaries
\* A dict is the sequence of its <<key, value>> items in insertion order,
\* one item per key.
EmptyDict == <<>>

Keys(d) == {d[j][1] : j \in DOMAIN d}

Get(d, key) == d[CHOOSE j \in DOMAIN d : d[j][1] = key][2]

\* Mutant: the first record of a key wins.
DictPut_first(d, key, value) ==
    IF key \in Keys(d) THEN d ELSE Append(d, <<key, value>>)

\* d[key] = value
DictPut(d, key, value) ==
    IF key \in Keys(d)
    THEN [d EXCEPT ![CHOOSE j \in DOMAIN d : d[j][1] = key] = <<key, value>>]
    ELSE Append(d, <<key, value>>)

\* The two loops over the lookup records, record k onwards, d being the dict
\* built from the records before k.  (Len(d) < k always holds; testing it
\* makes TLC evaluate d at every step instead of nesting the updates.)
RECURSIVE BuildEmailToId(_, _, _)
BuildEmailToId(accts, k, d) ==
    IF k > Len(accts) \/ Len(d) >= k THEN d
    ELSE LET em == normalize_email(accts[k].from_email) IN
         IF em # <<>> /\ accts[k].id # NoneId
         THEN BuildEmailToId(accts, k + 1, DictPut(d, em, accts[k].id))
         ELSE BuildEmailToId(accts, k + 1, d)

RECURSIVE BuildTagToId(_, _, _)
BuildTagToId(tgs, k, d) ==
    IF k > Len(tgs) \/ Len(d) >= k THEN d
    ELSE LET name == normalize_tag(tgs[k].name)
             tid == tgs[k].id IN
         IF name = <<>> \/ tid = NoneId
         THEN BuildTagToId(tgs, k + 1, d)
         ELSE BuildTagToId(tgs, k + 1, DictPut(d, name, tid))

\* Series.map(dict).fillna("n/a") on one cell.
MapCell(d, key) == IF \E j \in DOMAIN d : d[j][1] = key THEN Get(d, key) ELSE NA

\* The working frame df built from the upload: both columns normalised.
BuildFrame(csv) ==
    [k \in 1..Len(csv) |->
        [email |-> normalize_email(csv[k].email), tag |-> normalize_tag(csv[k].tag)]]

\* The frame with the two identifier columns added.
MapFrame(frame, email_to_id, tag_to_id) ==
    [k \in 1..Len(frame) |->
        [email |-> frame[k].email,
         tag |-> frame[k].tag,
         email_account_id |-> MapCell(email_to_id, frame[k].email),
         tag_id |-> MapCell(tag_to_id, frame[k].tag)]]

\* ------------------------------------------------------------------ state
VARIABLES
    SMARTLEAD_BEARER,           \* st.secrets, stripped ("" when missing)
    SMARTLEAD_API_KEY,
    use_rest_accounts_fallback, \* checkbox, default True
    dry_run,                    \* checkbox, default True
    uploaded,                   \* a CSV has been uploaded and parsed
    df_raw,                     \* the parsed upload: raw email and tag cells
    df,                         \* the working frame every run builds from df_raw
    mapped_df,                  \* st.session_state["mapped_df"]: <<>> or <<frame>>
    run,                        \* what the current / last script run is
    stopped,                    \* the run ended in st.stop()
    errors,                     \* st.error messages of the run
    accounts,                   \* the lookup records mapped_df was computed from
    tags,
    lookups,                    \* lookup requests sent by the run, in order
    pc,                         \* "idle", or "applying" inside the apply loop
    valid,                      \* locals of Apply Tags: row labels
    invalid_rows,
    grouped,                    \* valid.groupby("tag_id"): <<[tag_id, sub]>>
    g,                          \* position of the outer loop (1-based)
    i,                          \* position of the inner loop (offset)
    batches,                    \* the slices the loop has taken so far
    calls,                      \* apply requests sent by the run, in order
    action_logs,
    total_ok,
    total_fail

session == <<SMARTLEAD_BEARER, SMARTLEAD_API_KEY, use_rest_accounts_fallback,
             dry_run, uploaded, df_raw, df, mapped_df, accounts, tags>>
fetchLocals == <<lookups>>
applyLocals == <<valid, invalid_rows, grouped, g, i, batches, calls,
                 action_logs, total_ok, total_fail>>
vars == <<session, run, stopped, errors, fetchLocals, pc, applyLocals>>

Secrets == {"", "secret"}

\* Every script run starts with fresh locals and nothing sent.
FreshFetchLocals == lookups' = <<>>

FreshApplyLocals ==
    /\ valid' = <<>>
    /\ invalid_rows' = <<>>
    /\ grouped' = <<>>
    /\ g' = 1
    /\ i' = 0
    /\ batches' = <<>>
    /\ calls' = <<>>
    /\ action_logs' = <<>>
    /\ total_ok' = 0
    /\ total_fail' = 0

Init ==
    /\ SMARTLEAD_BEARER \in Secrets
    /\ SMARTLEAD_API_KEY \in Secrets
    /\ SMARTLEAD_BEARER # "" \/ SMARTLEAD_API_KEY # ""
    /\ use_rest_accounts_fallback = TRUE
    /\ dry_run = TRUE
    /\ uploaded = FALSE
    /\ df_raw = <<>>
    /\ df = <<>>
    /\ mapped_df = <<>>
    /\ run = "none"
    /\ stopped = FALSE
    /\ errors = <<>>
    /\ accounts = <<>>
    /\ tags = <<>>
    /\ lookups = <<>>
    /\ pc = "idle"
    /\ valid = <<>>
    /\ invalid_rows = <<>>
    /\ grouped = <<>>
    /\ g = 1
    /\ i = 0
    /\ batches = <<>>
    /\ calls = <<>>
    /\ action_logs = <<>>
    /\ total_ok = 0
    /\ total_fail = 0

\* ------------------------------------------------------------ interactions
\* A CSV is uploaded (one upload per session) and the frame is built.
Upload ==
    /\ pc = "idle"
    /\ ~uploaded
    /\ \E csv \in CsvFiles :
          /\ uploaded' = TRUE
          /\ df_raw' = csv
          /\ df' = BuildFrame(csv)
    /\ run' = "upload"
    /\ stopped' = FALSE
    /\ errors' = <<>>
    /\ pc' = "idle"
    /\ FreshFetchLocals
    /\ FreshApplyLocals
    /\ UNCHANGED <<SMARTLEAD_BEARER, SMARTLEAD_API_KEY, use_rest_accounts_fallback,
                   dry_run, mapped_df, accounts, tags>>

ToggleRestFallback ==
    /\ pc = "idle"
    /\ use_rest_accounts_fallback' = ~use_rest_accounts_fallback
    /\ run' = "toggle"
    /\ stopped' = FALSE
    /\ errors' = <<>>
    /\ pc' = "idle"
    /\ FreshFetchLocals
    /\ FreshApplyLocals
    /\ UNCHANGED <<SMARTLEAD_BEARER, SMARTLEAD_API_KEY, dry_run, uploaded, df_raw, df, mapped_df,
                   accounts, tags>>

\* The dry-run checkbox is rendered only below a mapped table.
ToggleDryRun ==
    /\ pc = "idle"
    /\ uploaded
    /\ mapped_df # <<>>
    /\ dry_run' = ~dry_run
    /\ run' = "toggle"
    /\ stopped' = FALSE
    /\ errors' = <<>>
    /\ pc' = "idle"
    /\ FreshFetchLocals
    /\ FreshApplyLocals
    /\ UNCHANGED <<SMARTLEAD_BEARER, SMARTLEAD_API_KEY, use_rest_accounts_fallback,
                   uploaded, df_raw, df, mapped_df, accounts, tags>>

\* A lookup request the run sent, and whether its fetch function returned.
Sent(kind, res) == [kind |-> kind, ok |-> res.ok]

\* The accounts stage of Fetch and Map: GraphQL, then REST when enabled.
AccountsStage(ga, ra) ==
    LET first == fetch_email_accounts_graphql(ga)
        second == fetch_email_accounts_rest(ra) IN
    IF first.ok
    THEN [rows |-> first.rows, errs |-> <<>>, sent |-> <<Sent("gql_accounts", first)>>]
    ELSE IF use_rest_accounts_fallback
    THEN [rows |-> second.rows,
          errs |-> IF second.ok THEN <<>> ELSE <<"Accounts fetch failed">>,
          sent |-> <<Sent("gql_accounts", first), Sent("rest_accounts", second)>>]
    ELSE [rows |-> <<>>, errs |-> <<"Accounts fetch failed">>,
          sent |-> <<Sent("gql_accounts", first)>>]

TagsStage(gt) ==
    LET res == fetch_tags_graphql(gt) IN
    [rows |-> res.rows,
     errs |-> IF res.ok THEN <<>> ELSE <<"Tags fetch failed">>,
     sent |-> <<Sent("gql_tags", res)>>]

\* Mutant: the run goes on to map after a failed lookup.
FetchStops_never(errs) == FALSE

\* if errors: ... st.stop()
FetchStops(errs) == errs # <<>>

\* The "Fetch and Map" button.
FetchAndMap ==
    /\ pc = "idle"
    /\ uploaded
    /\ \E ga \in GqlAccountsResponses :
       \E ra \in IF fetch_email_accounts_graphql(ga).ok \/ ~use_rest_accounts_fallback
                 THEN {Raised} ELSE RestAccountsResponses :
          LET a == AccountsStage(ga, ra)
              email_to_id == BuildEmailToId(a.rows, 1, EmptyDict) IN
          \E gt \in GqlTagsResponses :
             LET t == TagsStage(gt)
                 errs == a.errs \o t.errs
                 tag_to_id == BuildTagToId(t.rows, 1, EmptyDict) IN
             /\ lookups' = a.sent \o t.sent
             /\ errors' = errs
             /\ stopped' = FetchStops(errs)
             /\ IF FetchStops(errs)
                THEN UNCHANGED <<mapped_df, accounts, tags>>
                ELSE /\ mapped_df' = <<MapFrame(df, email_to_id, tag_to_id)>>
                     /\ accounts' = a.rows
                     /\ tags' = t.rows
    /\ run' = "fetch"
    /\ pc' = "idle"
    /\ FreshApplyLocals
    /\ UNCHANGED <<SMARTLEAD_BEARER, SMARTLEAD_API_KEY, use_rest_accounts_fallback,
                   dry_run, uploaded, df_raw, df>>

\* ---------------------------------------------------------------- Apply Tags
Range(s) == {s[k] : k \in DOMAIN s}

Min(a, b) == IF a < b THEN a ELSE b

\* int(x) of an identifier read back from the frame.
PyInt(x) == x

RowLabels(frame) == [k \in 1..Len(frame) |-> k]

\* Mutant: | in place of &.
FilterValid_or(frame) ==
    SelectSeq(RowLabels(frame),
              LAMBDA r : frame[r].email_account_id # NA \/ frame[r].tag_id # NA)

\* mapped_df[(email_account_id != "n/a") & (tag_id != "n/a")]
FilterValid(frame) ==
    SelectSeq(RowLabels(frame),
              LAMBDA r : frame[r].email_account_id # NA /\ frame[r].tag_id # NA)

\* Mutant: & in place of |.
FilterInvalid_and(frame) ==
    SelectSeq(RowLabels(frame),
              LAMBDA r : frame[r].email_account_id = NA /\ frame[r].tag_id = NA)

\* mapped_df[(email_account_id == "n/a") | (tag_id == "n/a")]
FilterInvalid(frame) ==
    SelectSeq(RowLabels(frame),
              LAMBDA r : frame[r].email_account_id = NA \/ frame[r].tag_id = NA)

RECURSIVE SortedSeq(_)
SortedSeq(S) ==
    IF S = {} THEN <<>>
    ELSE LET lo == CHOOSE x \in S : \A y \in S : x <= y IN
         <<lo>> \o SortedSeq(S \ {lo})

\* valid.groupby("tag_id"): keys ascending, rows of a group in frame order.
GroupBy(frame, rows) ==
    LET keys == SortedSeq({frame[r].tag_id : r \in Range(rows)}) IN
    [k \in 1..Len(keys) |->
        [tag_id |-> keys[k],
         sub |-> SelectSeq(rows, LAMBDA r : frame[r].tag_id = keys[k])]]

\* [int(x) for x in sub["email_account_id"].tolist()]
IdsOf(frame, sub) == [k \in 1..Len(sub) |-> PyInt(frame[sub[k]].email_account_id)]

\* Mutant: the slice starts one element early.
Slice_overlap(s, lo, hi) ==
    SubSeq(s, IF lo = 0 THEN 1 ELSE lo, Min(hi, Len(s)))

\* Mutant: the slice ends one element late.
Slice_long(s, lo, hi) == SubSeq(s, lo + 1, Min(hi + 1, Len(s)))

\* s[lo:hi]
Slice(s, lo, hi) == SubSeq(s, lo + 1, Min(hi, Len(s)))

\* Mutant: the inner loop stops after its first slice.
NextPos_skip(groups, gg, ii) == [g |-> gg + 1, i |-> 0]

\* The loop position after the slice at (gg, ii): the next offset of
\* range(0, len(ids), EMAIL_BATCH_LIMIT), or the next group.
NextPos(groups, gg, ii) ==
    IF ii + EMAIL_BATCH_LIMIT < Len(groups[gg].sub)
    THEN [g |-> gg, i |-> ii + EMAIL_BATCH_LIMIT]
    ELSE [g |-> gg + 1, i |-> 0]

\* Mutant: status 300 counts as success.
apply_tags_batch_300(email_ids, tag_id, resp) ==
    IF SMARTLEAD_API_KEY = ""
    THEN [ok |-> FALSE, err |-> "SMARTLEAD_API_KEY is missing", sent |-> FALSE]
    ELSE IF 200 <= resp.status_code /\ resp.status_code <= 300
    THEN [ok |-> TRUE, err |-> "", sent |-> TRUE]
    ELSE [ok |-> FALSE,
          err |-> "HTTP " \o ToString(resp.status_code) \o ": " \o resp.message,
          sent |-> TRUE]

apply_tags_batch(email_ids, tag_id, resp) ==
    IF SMARTLEAD_API_KEY = ""
    THEN [ok |-> FALSE, err |-> "SMARTLEAD_API_KEY is missing", sent |-> FALSE]
    ELSE IF 200 <= resp.status_code /\ resp.status_code < 300
    THEN [ok |-> TRUE, err |-> "", sent |-> TRUE]
    ELSE [ok |-> FALSE,
          err |-> "HTTP " \o ToString(resp.status_code) \o ": " \o resp.message,
          sent |-> TRUE]

LogEntry(tag_id, batch, status) ==
    [tag_id |-> PyInt(tag_id), batch_count |-> Len(batch), status |-> status]

\* Mutant: the dry-run branch is never taken.
SkipsCall_never(dry) == FALSE

\* if dry_run: ... continue
SkipsCall(dry) == dry

\* The "Apply Tags" button, up to the start of the loop.
ApplyStart ==
    /\ pc = "idle"
    /\ uploaded
    /\ mapped_df # <<>>
    /\ run' = "apply"
    /\ errors' = IF ~dry_run /\ SMARTLEAD_API_KEY = ""
                 THEN <<"SMARTLEAD_API_KEY is required to apply tags">>
                 ELSE <<>>
    /\ stopped' = (~dry_run /\ SMARTLEAD_API_KEY = "")
    /\ pc' = IF ~dry_run /\ SMARTLEAD_API_KEY = "" THEN "idle" ELSE "applying"
    /\ IF ~dry_run /\ SMARTLEAD_API_KEY = ""
       THEN /\ valid' = <<>>
            /\ invalid_rows' = <<>>
            /\ grouped' = <<>>
       ELSE /\ valid' = FilterValid(mapped_df[1])
            /\ invalid_rows' = FilterInvalid(mapped_df[1])
            /\ grouped' = GroupBy(mapped_df[1], FilterValid(mapped_df[1]))
    /\ g' = 1
    /\ i' = 0
    /\ batches' = <<>>
    /\ calls' = <<>>
    /\ action_logs' = <<>>
    /\ total_ok' = 0
    /\ total_fail' = 0
    /\ FreshFetchLocals
    /\ UNCHANGED session

\* One pass of the loop body: the next slice of the current group.
ApplyChunk ==
    /\ pc = "applying"
    /\ g <= Len(grouped)
    /\ \E resp \in ApplyResponses :
          LET tag_id == grouped[g].tag_id
              ids == IdsOf(mapped_df[1], grouped[g].sub)
              batch == Slice(ids, i, i + EMAIL_BATCH_LIMIT)
              res == apply_tags_batch(batch, PyInt(tag_id), resp)
              next == NextPos(grouped, g, i) IN
          /\ batches' = Append(batches,
                               [g |-> g, i |-> i, tag_id |-> tag_id,
                                rows |-> Slice(grouped[g].sub, i, i + EMAIL_BATCH_LIMIT)])
          /\ IF SkipsCall(dry_run)
             THEN /\ action_logs' =
                        Append(action_logs, LogEntry(tag_id, batch, "SKIPPED, dry run"))
                  /\ UNCHANGED <<calls, total_ok, total_fail>>
             ELSE /\ calls' = IF res.sent
                              THEN Append(calls,
                                          [email_account_ids |-> batch,
                                           tag_ids |-> <<PyInt(tag_id)>>,
                                           response |-> resp])
                              ELSE calls
                  /\ total_ok' = IF res.ok THEN total_ok + Len(batch) ELSE total_ok
                  /\ total_fail' = IF res.ok THEN total_fail ELSE total_fail + Len(batch)
                  /\ action_logs' =
                        Append(action_logs,
                               LogEntry(tag_id, batch,
                                        IF res.ok THEN "APPLIED"
                                        ELSE "FAILED, " \o res.err))
          /\ g' = next.g
          /\ i' = next.i
    /\ UNCHANGED <<session, run, stopped, errors, fetchLocals, pc,
                   valid, invalid_rows, grouped>>

\* The loop is exhausted: the action log and the totals are shown.
ApplyFinish ==
    /\ pc = "applying"
    /\ g > Len(grouped)
    /\ pc' = "idle"
    /\ UNCHANGED <<session, run, stopped, errors, fetchLocals, applyLocals>>

Next ==
    \/ Upload
    \/ ToggleRestFallback
    \/ ToggleDryRun
    \/ FetchAndMap
    \/ ApplyStart
    \/ ApplyChunk
    \/ ApplyFinish

Spec == Init /\ [][Next]_vars

\* =================================================================== claims
\* The mapped table (defined when mapped_df # <<>>).
Frame == mapped_df[1]

Rows == 1..Len(Frame)

HasAccount(r) == Frame[r].email_account_id # NA

HasTag(r) == Frame[r].tag_id # NA

\* An Apply Tags run that passed its guards, and one that reached its end.
ApplyRuns == run = "apply" /\ ~stopped

ApplyDone == ApplyRuns /\ pc = "idle"

DryStatus == "SKIPPED, dry run"

\* The rows the batches hold.
RowsIn(k) == Range(batches[k].rows)

\* The valid rows of tag t, in table order.
GroupRows(t) ==
    SelectSeq(RowLabels(Frame), LAMBDA r : HasAccount(r) /\ Frame[r].tag_id = t)

ValidTags == {Frame[r].tag_id : r \in {x \in Rows : HasAccount(x) /\ HasTag(x)}}

Ceil(n) == (n + EMAIL_BATCH_LIMIT - 1) \div EMAIL_BATCH_LIMIT

RECURSIVE SumChunks(_)
SumChunks(T) ==
    IF T = {} THEN 0
    ELSE LET t == CHOOSE x \in T : TRUE IN
         Ceil(Len(GroupRows(t))) + SumChunks(T \ {t})

ExpectedChunks == SumChunks(ValidTags)

\* Sum of batch_count over the first k log entries whose status is in S.
RECURSIVE LoggedRows(_, _)
LoggedRows(k, S) ==
    IF k = 0 THEN 0
    ELSE LoggedRows(k - 1, S)
         + (IF action_logs[k].status \in S THEN action_logs[k].batch_count ELSE 0)

CallFailed(c) == ~(200 <= c.response.status_code /\ c.response.status_code < 300)

FailedText(c) ==
    "FAILED, HTTP " \o ToString(c.response.status_code) \o ": " \o c.response.message

\* Rows sent by the first k calls that failed (want = TRUE) or succeeded.
RECURSIVE CalledRows(_, _)
CalledRows(k, want) ==
    IF k = 0 THEN 0
    ELSE CalledRows(k - 1, want)
         + (IF CallFailed(calls[k]) = want THEN Len(calls[k].email_account_ids) ELSE 0)

SkippedNoAccount == Cardinality({r \in Rows : ~HasAccount(r) /\ HasTag(r)})

SkippedNoTag == Cardinality({r \in Rows : HasAccount(r) /\ ~HasTag(r)})

SkippedBoth == Cardinality({r \in Rows : ~HasAccount(r) /\ ~HasTag(r)})

C2_RowInExactlyOneChunk ==
    ApplyRuns =>
        \A r \in Rows :
            LET holders == {k \in DOMAIN batches : r \in RowsIn(k)} IN
            /\ ~(HasAccount(r) /\ HasTag(r)) => holders = {}
            /\ Cardinality(holders) <= 1
            /\ (pc = "idle" /\ HasAccount(r) /\ HasTag(r)) => Cardinality(holders) = 1
            /\ \A k \in holders :
                  /\ batches[k].tag_id = Frame[r].tag_id
                  /\ Cardinality({j \in DOMAIN batches[k].rows : batches[k].rows[j] = r}) = 1

C2_Witness ==
    /\ ApplyDone
    /\ Len(batches) >= 2
    /\ \E r \in Rows : HasAccount(r) /\ ~HasTag(r)
    /\ \E r \in Rows : ~HasAccount(r) /\ HasTag(r)

\* C3: every chunk has between 1 and EMAIL_BATCH_LIMIT members, a tag group
\* of N valid rows gives ceil(N / EMAIL_BATCH_LIMIT) chunks, and each chunk is
\* a contiguous slice of the group's account ids.
C3_ChunkSizes ==
    ApplyRuns =>
        /\ \A k \in DOMAIN batches :
              LET b == batches[k]
                  group == GroupRows(b.tag_id) IN
              /\ 1 <= Len(b.rows) /\ Len(b.rows) <= EMAIL_BATCH_LIMIT
              /\ b.i % EMAIL_BATCH_LIMIT = 0
              /\ Len(b.rows) = Min(EMAIL_BATCH_LIMIT, Len(group) - b.i)
              /\ \A j \in DOMAIN b.rows : b.rows[j] = group[b.i + j]
              /\ ~dry_run =>
                    /\ k \in DOMAIN calls
                    /\ calls[k].email_account_ids =
                          [j \in DOMAIN b.rows |-> Frame[group[b.i + j]].email_account_id]
        /\ pc = "idle" =>
              \A t \in ValidTags :
                  Cardinality({k \in DOMAIN batches : batches[k].tag_id = t})
                      = Ceil(Len(GroupRows(t)))

C3_Witness ==
    /\ ApplyDone
    /\ Len(batches) = 3
    /\ batches[3].g = 1
    /\ Len(batches[3].rows) < EMAIL_BATCH_LIMIT

\* C4: a dry run sends no apply call, logs every chunk with the dry-run
\* status, and ends with zero failed rows.
C4_DryRunCallsNothing ==
    (run = "apply" /\ dry_run) =>
        /\ ~stopped
        /\ calls = <<>>
        /\ total_fail = 0
        /\ Len(action_logs) = Len(batches)
        /\ \A k \in DOMAIN batches :
              /\ action_logs[k].status = DryStatus
              /\ action_logs[k].tag_id = batches[k].tag_id
              /\ action_logs[k].batch_count = Len(batches[k].rows)
        /\ pc = "idle" => Len(action_logs) = ExpectedChunks

C4_Witness ==
    /\ ApplyDone
    /\ dry_run
    /\ SMARTLEAD_API_KEY = ""
    /\ Len(action_logs) = 3

LookupRaised(kind) == \E k \in DOMAIN lookups : lookups[k].kind = kind /\ ~lookups[k].ok

\* The accounts lookup failed: GraphQL and, when the fallback is enabled,
\* REST as well.  The tags lookup failed.
AccountsLookupFailed ==
    /\ LookupRaised("gql_accounts")
    /\ use_rest_accounts_fallback => LookupRaised("rest_accounts")

TagsLookupFailed == LookupRaised("gql_tags")

\* C6: a Fetch and Map run whose accounts lookup or tags lookup fails stops:
\* it leaves the stored mapped table as it was, computes no mapping from the
\* lookup that succeeded, and issues no apply call.
C6_FailedLookupAborts ==
    [][(run' = "fetch" /\ (AccountsLookupFailed' \/ TagsLookupFailed'))
          => /\ stopped'
             /\ errors' # <<>>
             /\ mapped_df' = mapped_df
             /\ accounts' = accounts
             /\ tags' = tags
             /\ calls' = <<>>
             /\ batches' = <<>>
             /\ pc' = "idle"]_vars

\* A table from an earlier run is stored, and of the two lookups of this
\* run one succeeded and one failed.
C6_Witness ==
    /\ run = "fetch"
    /\ stopped
    /\ mapped_df # <<>>
    /\ TagsLookupFailed
    /\ \E k \in DOMAIN lookups : lookups[k].ok

\* C7 as stated: with the bearer credential missing no lookup request is
\* sent, and with the API key missing in live mode no apply call is sent and
\* no chunk is recorded.
C7_MissingCredentialAborts ==
    /\ SMARTLEAD_BEARER = "" => lookups = <<>>
    /\ (run = "apply" /\ ~dry_run /\ SMARTLEAD_API_KEY = "") =>
          /\ stopped
          /\ calls = <<>>
          /\ batches = <<>>
          /\ action_logs = <<>>

AccountKeys ==
    {normalize_email(accounts[j].from_email) :
        j \in {x \in DOMAIN accounts : accounts[x].id # NoneId}} \ {<<>>}

TagKeys ==
    {normalize_tag(tags[j].name) : j \in {x \in DOMAIN tags : tags[x].id # NoneId}}
        \ {<<>>}

\* The class of a row, from which of its two identifiers were found.
Status(accountFound, tagFound) ==
    CASE accountFound /\ tagFound -> "RESOLVED"
      [] ~accountFound /\ tagFound -> "SKIPPED_NO_ACCOUNT"
      [] accountFound /\ ~tagFound -> "SKIPPED_NO_TAG"
      [] OTHER -> "SKIPPED_NO_ACCOUNT_AND_TAG"

Skipped == {"SKIPPED_NO_ACCOUNT", "SKIPPED_NO_TAG", "SKIPPED_NO_ACCOUNT_AND_TAG"}

\* C9: a row is resolved and eligible for apply when both identifiers were
\* found, and skipped when the account, the tag or both were not: the apply
\* step takes exactly the resolved rows and skips exactly the others.
C9_Classification ==
    ApplyRuns =>
        LET ak == AccountKeys
            tk == TagKeys
            taken == Range(valid)
            left == Range(invalid_rows) IN
        /\ \A r \in Rows :
              LET status == Status(Frame[r].email \in ak, Frame[r].tag \in tk) IN
              /\ Frame[r].email \in ak <=> Frame[r].email_account_id # NA
              /\ Frame[r].tag \in tk <=> Frame[r].tag_id # NA
              /\ status = "RESOLVED" <=> r \in taken
              /\ status \in Skipped <=> r \in left
              /\ ~(r \in taken /\ r \in left)
        /\ Len(valid) + Len(invalid_rows) = Len(Frame)

C9_Witness ==
    /\ ApplyRuns
    /\ \A c \in Skipped \cup {"RESOLVED"} :
          \E r \in Rows :
             Status(Frame[r].email \in AccountKeys, Frame[r].tag \in TagKeys) = c

\* Trimmed and lowercased, computed from the positions of the characters
\* that are not whitespace.
TrimLower(s) ==
    LET t == IF s = NoneStr THEN <<>> ELSE s
        ink == {j \in DOMAIN t : t[j] \notin Whitespace} IN
    IF ink = {} THEN <<>>
    ELSE LET lo == CHOOSE j \in ink : \A x \in ink : j <= x
             hi == CHOOSE j \in ink : \A x \in ink : j >= x IN
         [j \in 1..(hi - lo + 1) |-> LowerChar(t[lo + j - 1])]

LastOf(S) == CHOOSE j \in S : \A x \in S : j >= x

\* C10: the account id (tag id) of a row is that of the last lookup record,
\* among those with an id and a non-empty key, whose trimmed lowercased key
\* equals the row's trimmed lowercased email (tag), and n/a when there is
\* none; accounts [{1, a@x.com}], tags [{9, VIP}], row (A@X.com, vip) give
\* account 1 and tag 9.
C10_Resolution ==
    (run = "fetch" /\ ~stopped) =>
        /\ Len(Frame) = Len(df_raw)
        /\ \A r \in Rows :
              LET ek == TrimLower(df_raw[r].email)
                  tk == TrimLower(df_raw[r].tag)
                  A == {j \in DOMAIN accounts :
                          /\ accounts[j].id # NoneId
                          /\ TrimLower(accounts[j].from_email) # <<>>
                          /\ TrimLower(accounts[j].from_email) = ek}
                  T == {j \in DOMAIN tags :
                          /\ tags[j].id # NoneId
                          /\ TrimLower(tags[j].name) # <<>>
                          /\ TrimLower(tags[j].name) = tk} IN
              /\ Frame[r].email = ek
              /\ Frame[r].tag = tk
              /\ Frame[r].email_account_id = IF A = {} THEN NA ELSE accounts[LastOf(A)].id
              /\ Frame[r].tag_id = IF T = {} THEN NA ELSE tags[LastOf(T)].id
        /\ (/\ df_raw = <<[email |-> ExEmailUpper, tag |-> TagVipLower]>>
            /\ accounts = <<[id |-> 1, from_email |-> ExEmailLower]>>
            /\ tags = <<[id |-> 9, name |-> TagVipUpper]>>)
              => /\ Frame[1].email_account_id = 1
                 /\ Frame[1].tag_id = 9

\* Keys met twice: mailbox 2 is 102 and then 502, the tag vip is 4 and
\* then 9; a record with a null id after them does not count.
C10_Witness ==
    /\ run = "fetch"
    /\ ~stopped
    /\ accounts = QuirkAccounts
    /\ \E r \in Rows : Frame[r].email_account_id = 502 /\ Frame[r].tag_id = 9
    /\ \E r \in Rows : Frame[r].email_account_id = 0
    /\ \E r \in Rows : Frame[r].email_account_id = NA

====
